---- MODULE Spec2Model ----
(***************************************************************************)
(* A model of the YNAB command-line wrapper (the YNABCli class of          *)
(* cli/ynab-cli.js) and of the assistant layer (the ClaudeYNABAssistant    *)
(* class of cli/claude-ynab.js).                                           *)
(*                                                                         *)
(* Every handler is one action: it draws its arguments and the response of *)
(* the budgeting API from small sets, logs the requests it sends, and      *)
(* leaves what it prints or returns in `result`.  Return brings the caller *)
(* back to the point where the next handler can be invoked.                *)
(***************************************************************************)
EXTENDS Integers, Sequences, FiniteSets, TLC

VARIABLES
    pc,        \* "idle": no handler is running; "done": a handler has finished
    op,        \* the handler that ran last
    params,    \* the arguments it was called with
    clock,     \* the date new Date() gave the handler, if it asked
    requests,  \* the requests the handler sent to the API, in order
    response,  \* what the API answered
    result,    \* what the handler printed or returned, or the error it threw
    apiArrays, \* the arrays of the response as the handler leaves them
    cachedBudgets,    \* this.cachedBudgets of the assistant
    defaultBudgetId   \* this.defaultBudgetId of the assistant

vars == <<pc, op, params, clock, requests, response, result, apiArrays,
          cachedBudgets, defaultBudgetId>>

----------------------------------------------------------------------------
(* Bounds of the model. *)

MaxTx == 3         \* longest transaction list the API returns
MaxDate == 3       \* transaction dates are the days 1..MaxDate
MaxLimit == 3      \* largest explicit limit argument
ShortTx == 1       \* longest list answered to a call that sets since or a filter
MaxAmount == 16    \* amounts swept: -MaxAmount..MaxAmount ten-thousandths
MaxAccounts == 4   \* longest account list the API returns
MaxGroups == 3     \* most category groups the API returns
MaxCategories == 3 \* most categories of a group
MaxBudgets == 2    \* most budgets the API returns
ShortAccounts == 1 \* most accounts in the answers to a command
MaxPayees == 2     \* most payees the API returns

----------------------------------------------------------------------------
(* JavaScript values.  Strings stand for themselves; undefined and null    *)
(* are two reserved strings.  A number-or-not argument is a record         *)
(* [kind, n].                                                              *)

Undefined == "undefined"
Null == "null"
EmptyString == ""

\* The operand of `v || d` decides: undefined, null and "" are falsy.
Truthy(v) == v \notin {Undefined, Null, EmptyString}

\* v || d on string-valued fields.
Or(v, d) == IF Truthy(v) THEN v ELSE d

\* An array-or-null field: null, or the array with these items.
NullArray == [null |-> TRUE, items |-> <<>>]
Array(items) == [null |-> FALSE, items |-> items]

NoNumber == [kind |-> "undefined", n |-> 0]
Number(n) == [kind |-> "number", n |-> n]

Min(a, b) == IF a <= b THEN a ELSE b

BudgetIds == {"b1"}

----------------------------------------------------------------------------
(* Transaction listing: YNABCli.listTransactions and                       *)
(* ClaudeYNABAssistant.getTransactions.                                    *)

DefaultLimit == 20

\* options.limit || 20 : an absent limit and the limit 0 both give 20.
LimitOrDefault(limit) ==
    IF limit.kind = "number" /\ limit.n # 0 THEN limit.n ELSE DefaultLimit

\* t => t.approved
CliKeeps(t) == t.approved

\* t => t.approved && !t.deleted
AssistantKeeps(t) == t.approved /\ ~t.deleted

\* A variant with the operands exchanged: oldest first.
CompareDatesAscending(a, b) == a.date - b.date

\* (a, b) => new Date(b.date) - new Date(a.date) : negative when a is to
\* come first.  Dates are day numbers, so the difference of the two Date
\* values has the sign of the difference of the days.
CompareDates(a, b) == b.date - a.date

\* A variant that is not stable: x goes in front of the elements it ties with.
InsertBeforeEqual(x, s) ==
    LET keep == {i \in 0..Len(s) :
                    \A j \in 1..i : CompareDates(s[j], x) < 0}
        k == CHOOSE i \in keep : \A j \in keep : j <= i
    IN  SubSeq(s, 1, k) \o <<x>> \o SubSeq(s, k + 1, Len(s))

\* Array.prototype.sort is stable: x, the next element of the input, goes
\* behind every element already placed that does not have to follow it.
InsertSorted(x, s) ==
    LET keep == {i \in 0..Len(s) :
                    \A j \in 1..i : CompareDates(s[j], x) <= 0}
        k == CHOOSE i \in keep : \A j \in keep : j <= i
    IN  SubSeq(s, 1, k) \o <<x>> \o SubSeq(s, k + 1, Len(s))

RECURSIVE SortByDate(_)
SortByDate(s) ==
    IF s = <<>> THEN <<>>
    ELSE InsertSorted(s[Len(s)], SortByDate(SubSeq(s, 1, Len(s) - 1)))

\* .slice(0, limit) for limit >= 0
Slice(s, limit) == SubSeq(s, 1, Min(limit, Len(s)))

\* The arrays a handler works on: heap[1] is the array of the response, ref
\* the array an expression has given back.
Received(array) == [heap |-> <<array>>, ref |-> 1]

\* A variant that hands the array itself on instead of a new one.
SameArray(st) == st

\* filter and slice give back an array of their own.
NewArray(st) == [heap |-> Append(st.heap, <<>>), ref |-> Len(st.heap) + 1]

\* .filter(t => t.approved)
CliArrayFilter(st) ==
    LET new == NewArray(st)
    IN  [heap |-> [new.heap EXCEPT ![new.ref] = SelectSeq(st.heap[st.ref], CliKeeps)],
         ref |-> new.ref]

\* .filter(t => t.approved && !t.deleted)
AssistantArrayFilter(st) ==
    LET new == NewArray(st)
    IN  [heap |-> [new.heap EXCEPT ![new.ref] =
                      SelectSeq(st.heap[st.ref], AssistantKeeps)],
         ref |-> new.ref]

\* .sort(...) orders the array it is called on and gives that array back.
ArraySort(st) ==
    [heap |-> [st.heap EXCEPT ![st.ref] = SortByDate(st.heap[st.ref])],
     ref |-> st.ref]

\* .slice(0, limit)
ArraySlice(st, limit) ==
    LET new == NewArray(st)
    IN  [heap |-> [new.heap EXCEPT ![new.ref] = Slice(st.heap[st.ref], limit)],
         ref |-> new.ref]

\* response.data.transactions after the statement of part_000:89-92 and
\* after the one of part_001:222-225.
CliArrayAfterListing(transactions, limit) ==
    ArraySlice(ArraySort(CliArrayFilter(Received(transactions))), limit).heap[1]

AssistantArrayAfterListing(transactions, limit) ==
    ArraySlice(ArraySort(AssistantArrayFilter(Received(transactions))),
               limit).heap[1]

\* transactions.filter(t => t.approved).sort(...).slice(0, limit)
CliFilterSortSlice(transactions, limit) ==
    Slice(SortByDate(SelectSeq(transactions, CliKeeps)), limit)

\* transactions.filter(t => t.approved && !t.deleted).sort(...).slice(0, limit)
AssistantFilterSortSlice(transactions, limit) ==
    Slice(SortByDate(SelectSeq(transactions, AssistantKeeps)), limit)

\* The records of response.data.transactions: id is the position in the
\* list, so that ids are distinct.
TxFields == [date : 1..MaxDate, approved : BOOLEAN, deleted : BOOLEAN]

WithIds(f) ==
    [i \in 1..Len(f) |->
        [id |-> i, date |-> f[i].date,
         approved |-> f[i].approved, deleted |-> f[i].deleted]]

TxLists == {WithIds(f) : f \in UNION {[1..n -> TxFields] : n \in 0..MaxTx}}

\* The API answers a listing request with a list, or fails.
RemoteError == [ok |-> FALSE, transactions |-> <<>>]

TxResponses == {[ok |-> TRUE, transactions |-> l] : l \in TxLists}
                   \cup {RemoteError}

LimitArgs == {NoNumber} \cup {Number(n) : n \in 0..MaxLimit}

\* t => ({id: t.id, date: t.date, ..., approved: t.approved})
ReturnedTransaction(t) == [id |-> t.id, date |-> t.date, approved |-> t.approved]

MapReturned(s) == [i \in 1..Len(s) |-> ReturnedTransaction(s[i])]

SinceArgs == {Undefined, "2024-01-01"}
AccountIdArgs == {Undefined, "a1"}
CategoryIdArgs == {Undefined, "c1"}

\* The calls of a listing handler the model makes: every response with the
\* options accountId, categoryId and since left out, and every choice of
\* these options with the responses of at most ShortTx transactions (the
\* options decide the request, never what is done with the response).
PlainOptions == [accountId |-> Undefined, categoryId |-> Undefined,
                 since |-> Undefined]

ShortTxResponses ==
    {r \in TxResponses : Len(r.transactions) <= Min(ShortTx, MaxTx)}

CliListingCalls ==
    {[options |-> PlainOptions, resp |-> r] : r \in TxResponses}
        \cup {[options |-> [accountId |-> Undefined, categoryId |-> Undefined,
                            since |-> s],
               resp |-> r] : s \in SinceArgs, r \in ShortTxResponses}

AssistantListingCalls ==
    {[options |-> PlainOptions, resp |-> r] : r \in TxResponses}
        \cup {[options |-> [accountId |-> a, categoryId |-> c, since |-> s],
               resp |-> r] :
                 a \in AccountIdArgs, c \in CategoryIdArgs, s \in SinceArgs,
                 r \in ShortTxResponses}

CliListTransactions ==
    /\ pc = "idle"
    /\ \E budgetId \in BudgetIds, limit \in LimitArgs,
          call \in CliListingCalls :
          /\ op' = "YNABCli.listTransactions"
          /\ params' = [budgetId |-> budgetId, limit |-> limit,
                        accountId |-> call.options.accountId,
                        categoryId |-> call.options.categoryId,
                        since |-> call.options.since]
          /\ requests' = <<[api |-> "transactions.getTransactions",
                            budgetId |-> budgetId, filterId |-> Null,
                            since |-> Or(call.options.since, Null)]>>
          /\ response' = call.resp
          /\ result' =
                IF call.resp.ok
                THEN [status |-> "ok",
                      transactions |->
                          CliFilterSortSlice(call.resp.transactions,
                                             LimitOrDefault(limit))]
                ELSE [status |-> "error", transactions |-> <<>>]
    /\ pc' = "done"
    /\ clock' = Undefined
    /\ apiArrays' = IF response'.ok
                    THEN CliArrayAfterListing(response'.transactions,
                                              LimitOrDefault(params'.limit))
                    ELSE <<>>
    /\ UNCHANGED <<cachedBudgets, defaultBudgetId>>

\* A variant that looks at the category before the account.
ListingRequestCategoryFirst(budgetId, accountId, categoryId, since) ==
    IF Truthy(Or(categoryId, Null))
    THEN [api |-> "transactions.getTransactionsByCategory",
          budgetId |-> budgetId, filterId |-> categoryId,
          since |-> Or(since, Null)]
    ELSE IF Truthy(Or(accountId, Null))
    THEN [api |-> "transactions.getTransactionsByAccount",
          budgetId |-> budgetId, filterId |-> accountId,
          since |-> Or(since, Null)]
    ELSE [api |-> "transactions.getTransactions",
          budgetId |-> budgetId, filterId |-> Null,
          since |-> Or(since, Null)]

\* The request getTransactions sends: by account when accountId is truthy,
\* else by category when categoryId is truthy, else the unfiltered one.
ListingRequest(budgetId, accountId, categoryId, since) ==
    IF Truthy(Or(accountId, Null))
    THEN [api |-> "transactions.getTransactionsByAccount",
          budgetId |-> budgetId, filterId |-> accountId,
          since |-> Or(since, Null)]
    ELSE IF Truthy(Or(categoryId, Null))
    THEN [api |-> "transactions.getTransactionsByCategory",
          budgetId |-> budgetId, filterId |-> categoryId,
          since |-> Or(since, Null)]
    ELSE [api |-> "transactions.getTransactions",
          budgetId |-> budgetId, filterId |-> Null,
          since |-> Or(since, Null)]

AssistantGetTransactions ==
    /\ pc = "idle"
    /\ \E budgetId \in BudgetIds, limit \in LimitArgs,
          call \in AssistantListingCalls :
          /\ op' = "ClaudeYNABAssistant.getTransactions"
          /\ params' = [budgetId |-> budgetId, limit |-> limit,
                        accountId |-> call.options.accountId,
                        categoryId |-> call.options.categoryId,
                        since |-> call.options.since]
          /\ requests' = <<ListingRequest(budgetId, call.options.accountId,
                                          call.options.categoryId,
                                          call.options.since)>>
          /\ response' = call.resp
          /\ result' =
                IF call.resp.ok
                THEN [status |-> "ok",
                      transactions |->
                          MapReturned(
                              AssistantFilterSortSlice(call.resp.transactions,
                                                       LimitOrDefault(limit)))]
                ELSE [status |-> "error", transactions |-> <<>>]
    /\ pc' = "done"
    /\ clock' = Undefined
    /\ apiArrays' = IF response'.ok
                    THEN AssistantArrayAfterListing(response'.transactions,
                                                    LimitOrDefault(params'.limit))
                    ELSE <<>>
    /\ UNCHANGED <<cachedBudgets, defaultBudgetId>>

----------------------------------------------------------------------------
(* Adding a transaction: YNABCli.addTransaction and                        *)
(* ClaudeYNABAssistant.addTransaction.                                     *)

JsTrue == "true"
JsFalse == "false"

\* transactionData.amount: a number is counted in ten-thousandths of a major
\* unit (12.3445 is 123445); the other kinds are the values that are no
\* finite number.
NotNumeric == [kind |-> "string", n |-> 0]
NaN == [kind |-> "NaN", n |-> 0]
PlusInfinity == [kind |-> "Infinity", n |-> 0]
MinusInfinity == [kind |-> "-Infinity", n |-> 0]

\* Math.round(amount * 1000).  On a number, amount * 1000 is n / 10 and
\* Math.round gives floor(n / 10 + 1/2): a tie goes towards +infinity.
\* undefined and a non-numeric string give NaN; an infinity stays.  The
\* result of kind "number" counts milliunits.
RoundMilliunits(amount) ==
    CASE amount.kind = "number" -> Number((amount.n + 5) \div 10)
      [] amount.kind \in {"Infinity", "-Infinity"} -> amount
      [] OTHER -> NaN

\* transactionData.date || new Date().toISOString().split('T')[0]
DateOrToday(date, today) == Or(date, today)

\* A variant that takes only undefined for a missing field.
OrNullUnlessDefined(v) == IF v = Undefined THEN Null ELSE v

\* transactionData.categoryId || null, transactionData.memo || null
OrNull(v) == Or(v, Null)

\* approved: true
CliApproved(approved) == TRUE

\* approved: transactionData.approved !== false
AssistantApproved(approved) == approved # JsFalse

CliOutboundTransaction(data, today) ==
    [account_id |-> data.accountId,
     date |-> DateOrToday(data.date, today),
     amount |-> RoundMilliunits(data.amount),
     payee_name |-> data.payee,
     category_id |-> OrNull(data.categoryId),
     memo |-> OrNull(data.memo),
     approved |-> CliApproved(data.approved)]

AssistantOutboundTransaction(data, today) ==
    [account_id |-> data.accountId,
     date |-> DateOrToday(data.date, today),
     amount |-> RoundMilliunits(data.amount),
     payee_name |-> data.payee,
     category_id |-> OrNull(data.categoryId),
     memo |-> OrNull(data.memo),
     approved |-> AssistantApproved(data.approved)]

\* The inputs of addTransaction: every combination of the fields with a few
\* amounts, and every amount with the other fields of the spec's example.
SpecAmounts == {Number(125000), Number(123445), Number(-123445),
                Number(123449), Number(123451)}

CoreAmounts == {NoNumber, NotNumeric, NaN, PlusInfinity, Number(125000)}

AllAmounts ==
    CoreAmounts \cup {MinusInfinity} \cup SpecAmounts
        \cup {Number(n) : n \in (0 - MaxAmount)..MaxAmount}

ExampleData ==
    [accountId |-> "a1", date |-> Undefined, payee |-> "Store",
     categoryId |-> Undefined, memo |-> Undefined, approved |-> Undefined]

TransactionData ==
    [accountId : {Undefined, EmptyString, "a1"},
     date : {Undefined, Null, EmptyString, "2024-01-15"},
     amount : CoreAmounts,
     payee : {Undefined, "Store"},
     categoryId : {Undefined, Null, EmptyString, "c1"},
     memo : {Undefined, Null, EmptyString, "lunch"},
     approved : {Undefined, JsTrue, JsFalse}]
    \cup {[ExampleData EXCEPT !.accountId = a] @@ [amount |-> m] :
             a \in {Undefined, "a1"}, m \in AllAmounts}

\* The date new Date().toISOString() gives at the call (the UTC date).
Today == {"2024-02-01", "2024-02-02"}

\* createTransaction answers with the created transaction, or fails.
CreateResponses(transaction) ==
    {[ok |-> TRUE, transaction |-> [id |-> "t1"] @@ transaction],
     [ok |-> FALSE, transaction |-> <<>>]}

CliAddTransaction ==
    /\ pc = "idle"
    /\ \E budgetId \in BudgetIds, data \in TransactionData, today \in Today :
          LET transaction == CliOutboundTransaction(data, today) IN
          \E resp \in CreateResponses(transaction) :
              /\ clock' = today
              /\ op' = "YNABCli.addTransaction"
              /\ params' = [budgetId |-> budgetId, transactionData |-> data]
              /\ requests' = <<[api |-> "transactions.createTransaction",
                                budgetId |-> budgetId,
                                transaction |-> transaction]>>
              /\ response' = resp
              /\ result' = IF resp.ok
                           THEN [status |-> "ok", created |-> resp.transaction]
                           ELSE [status |-> "error", created |-> <<>>]
    /\ pc' = "done"
    /\ apiArrays' = <<>>
    /\ UNCHANGED <<cachedBudgets, defaultBudgetId>>

AssistantAddTransaction ==
    /\ pc = "idle"
    /\ \E budgetId \in BudgetIds, data \in TransactionData, today \in Today :
          LET transaction == AssistantOutboundTransaction(data, today) IN
          \E resp \in CreateResponses(transaction) :
              /\ clock' = today
              /\ op' = "ClaudeYNABAssistant.addTransaction"
              /\ params' = [budgetId |-> budgetId, transactionData |-> data]
              /\ requests' = <<[api |-> "transactions.createTransaction",
                                budgetId |-> budgetId,
                                transaction |-> transaction]>>
              /\ response' = resp
              /\ result' = IF resp.ok
                           THEN [status |-> "ok", created |-> resp.transaction]
                           ELSE [status |-> "error", created |-> <<>>]
    /\ pc' = "done"
    /\ apiArrays' = <<>>
    /\ UNCHANGED <<cachedBudgets, defaultBudgetId>>

----------------------------------------------------------------------------
(* The budget summary: YNABCli.getSummary and                              *)
(* ClaudeYNABAssistant.getSummary.                                         *)

Abs(n) == IF n < 0 THEN 0 - n ELSE n

\* new Intl.NumberFormat('en-US', {style: 'currency', currency: 'USD'})
\*     .format(milliunits / 1000)
\* The string is kept as its parts: the sign, the dollars and the two digits
\* of cents, the amount rounded to the cent with ties away from zero.
formatCurrency(milliunits) ==
    LET cents == (Abs(milliunits) + 5) \div 10
    IN  [negative |-> milliunits < 0,
         dollars |-> cents \div 100,
         cents |-> cents % 100]

\* A variant that forgets the on_budget flag.
NotClosed(a) == ~a.closed

\* a => !a.closed && a.on_budget
OnBudgetOpen(a) == ~a.closed /\ a.on_budget

\* a => !a.closed
Open(a) == ~a.closed

\* .reduce((sum, a) => sum + a.balance, 0)
RECURSIVE ReduceBalance(_)
ReduceBalance(s) ==
    IF s = <<>> THEN 0
    ELSE ReduceBalance(SubSeq(s, 1, Len(s) - 1)) + s[Len(s)].balance

\* accounts.filter(a => !a.closed && a.on_budget).reduce(...)
TotalBalance(accounts) == ReduceBalance(SelectSeq(accounts, OnBudgetOpen))

Balances == {-1005, 4, 1000}

AccountFields == [balance : Balances, closed : BOOLEAN, on_budget : BOOLEAN]

NameAccounts(f) ==
    [i \in 1..Len(f) |->
        [name |-> i, balance |-> f[i].balance,
         closed |-> f[i].closed, on_budget |-> f[i].on_budget]]

AccountLists ==
    {NameAccounts(f) : f \in UNION {[1..n -> AccountFields] : n \in 0..MaxAccounts}}

BudgetDetail == [name |-> "My Budget", iso_code |-> "USD"]

MonthDetail == [income |-> 5000000, budgeted |-> 4200000,
                activity |-> -3100500, to_be_budgeted |-> 800000]

\* The answers to the three requests of getSummary; any of them may fail.
SummaryResponses ==
    {[budgetOk |-> TRUE, accountsOk |-> TRUE, monthOk |-> TRUE,
      budget |-> BudgetDetail, accounts |-> l, month |-> MonthDetail] :
        l \in AccountLists}
    \cup {[budgetOk |-> b, accountsOk |-> a, monthOk |-> m,
           budget |-> BudgetDetail, accounts |-> <<>>, month |-> MonthDetail] :
             b \in BOOLEAN, a \in BOOLEAN, m \in BOOLEAN}

SummaryRequests(budgetId) ==
    <<[api |-> "budgets.getBudgetById", budgetId |-> budgetId],
      [api |-> "accounts.getAccounts", budgetId |-> budgetId],
      [api |-> "months.getCurrentMonth", budgetId |-> budgetId]>>

\* Promise.all rejects when one of the three requests fails.
AllOk(resp) == resp.budgetOk /\ resp.accountsOk /\ resp.monthOk

MonthLines(month) ==
    [income |-> formatCurrency(month.income),
     budgeted |-> formatCurrency(month.budgeted),
     activity |-> formatCurrency(month.activity),
     toBeBudgeted |-> formatCurrency(month.to_be_budgeted)]

\* a => `${a.name}: ${balance}`
CliAccountLine(a) == [name |-> a.name, balance |-> formatCurrency(a.balance)]

\* a => ({name: a.name, balance: this.formatCurrency(a.balance),
\*        onBudget: a.on_budget})
AssistantAccountLine(a) ==
    [name |-> a.name, balance |-> formatCurrency(a.balance),
     onBudget |-> a.on_budget]

NoSummary == [status |-> "error"]

CliSummary(resp) ==
    LET open == SelectSeq(resp.accounts, Open)
        totalBalance == TotalBalance(resp.accounts)
    IN  [status |-> "ok",
         budget |-> resp.budget,
         currentMonth |-> MonthLines(resp.month),
         accounts |-> [i \in 1..Len(open) |-> CliAccountLine(open[i])],
         totalMilliunits |-> totalBalance,
         totalBalance |-> formatCurrency(totalBalance)]

AssistantSummary(resp) ==
    LET open == SelectSeq(resp.accounts, Open)
        totalBalance == TotalBalance(resp.accounts)
    IN  [status |-> "ok",
         budget |-> resp.budget,
         currentMonth |-> MonthLines(resp.month),
         accounts |-> [i \in 1..Len(open) |-> AssistantAccountLine(open[i])],
         totalMilliunits |-> totalBalance,
         totalBalance |-> formatCurrency(totalBalance)]

CliGetSummary ==
    /\ pc = "idle"
    /\ \E budgetId \in BudgetIds, resp \in SummaryResponses :
          /\ op' = "YNABCli.getSummary"
          /\ params' = [budgetId |-> budgetId]
          /\ requests' = SummaryRequests(budgetId)
          /\ response' = resp
          /\ result' = IF AllOk(resp) THEN CliSummary(resp) ELSE NoSummary
    /\ pc' = "done"
    /\ clock' = Undefined
    /\ apiArrays' = response'.accounts
    /\ UNCHANGED <<cachedBudgets, defaultBudgetId>>

AssistantGetSummary ==
    /\ pc = "idle"
    /\ \E budgetId \in BudgetIds, resp \in SummaryResponses :
          /\ op' = "ClaudeYNABAssistant.getSummary"
          /\ params' = [budgetId |-> budgetId]
          /\ requests' = SummaryRequests(budgetId)
          /\ response' = resp
          /\ result' = IF AllOk(resp) THEN AssistantSummary(resp) ELSE NoSummary
    /\ pc' = "done"
    /\ clock' = Undefined
    /\ apiArrays' = response'.accounts
    /\ UNCHANGED <<cachedBudgets, defaultBudgetId>>

----------------------------------------------------------------------------
(* The category listing: YNABCli.listCategories and                        *)
(* ClaudeYNABAssistant.getCategories.                                      *)

\* A variant that looks at the hidden flag alone.
NotHidden(x) == ~x.hidden

\* g => !g.hidden && !g.deleted, c => !c.hidden && !c.deleted; in the CLI
\* if (group.hidden || group.deleted) return;
Visible(x) == ~x.hidden /\ ~x.deleted

\* c => ({id: c.id, name: c.name, budgeted: this.formatCurrency(c.budgeted),
\*        ..., budgetedMilliunits: c.budgeted, ...})
CategoryLine(c) ==
    [id |-> c.id, budgeted |-> formatCurrency(c.budgeted),
     budgetedMilliunits |-> c.budgeted]

\* group.categories.filter(c => !c.hidden && !c.deleted).map(...); in the CLI
\* the lines printed by group.categories.forEach
CategoryLines(categories) ==
    LET kept == SelectSeq(categories, Visible)
    IN  [i \in 1..Len(kept) |-> CategoryLine(kept[i])]

\* group => ({groupName: group.name, groupId: group.id, categories: ...}); in
\* the CLI the heading of the group and the lines under it
GroupEntry(group) ==
    [groupId |-> group.id, categories |-> CategoryLines(group.categories)]

\* A variant that leaves out the groups it has nothing to list under.
GroupEntriesWithoutEmpty(groups) ==
    LET kept == SelectSeq(groups, Visible)
        all == [i \in 1..Len(kept) |-> GroupEntry(kept[i])]
    IN  SelectSeq(all, LAMBDA e : e.categories # <<>>)

\* response.data.category_groups.filter(g => !g.hidden && !g.deleted).map(...)
GroupEntries(groups) ==
    LET kept == SelectSeq(groups, Visible)
    IN  [i \in 1..Len(kept) |-> GroupEntry(kept[i])]

\* response.data.category_groups: the id of a group is its position, the id
\* of a category its position behind ten times the position of its group.
Flags == [hidden : BOOLEAN, deleted : BOOLEAN]

FlagLists(n) == UNION {[1..k -> Flags] : k \in 0..n}

CategoriesOf(groupId, flags) ==
    [j \in 1..Len(flags) |->
        [id |-> 10 * groupId + j, hidden |-> flags[j].hidden,
         deleted |-> flags[j].deleted, budgeted |-> 1000 * j + 5]]

\* The lists the API answers with: up to MaxGroups groups of at most one
\* category each, and one group of up to MaxCategories categories.
GroupShapes(maxCategories) ==
    [hidden : BOOLEAN, deleted : BOOLEAN, categories : FlagLists(maxCategories)]

BuildGroups(shapes) ==
    [i \in 1..Len(shapes) |->
        [id |-> i, hidden |-> shapes[i].hidden, deleted |-> shapes[i].deleted,
         categories |-> CategoriesOf(i, shapes[i].categories)]]

CategoryGroupLists ==
    {BuildGroups(f) : f \in UNION {[1..n -> GroupShapes(1)] : n \in 0..MaxGroups}}
        \cup {BuildGroups(<<g>>) : g \in GroupShapes(MaxCategories)}

CategoryResponses ==
    {[ok |-> TRUE, category_groups |-> l] : l \in CategoryGroupLists}
        \cup {[ok |-> FALSE, category_groups |-> <<>>]}

CategoriesRequest(budgetId) ==
    [api |-> "categories.getCategories", budgetId |-> budgetId]

CliListCategories ==
    /\ pc = "idle"
    /\ \E budgetId \in BudgetIds, resp \in CategoryResponses :
          /\ op' = "YNABCli.listCategories"
          /\ params' = [budgetId |-> budgetId]
          /\ requests' = <<CategoriesRequest(budgetId)>>
          /\ response' = resp
          /\ result' =
                IF resp.ok
                THEN [status |-> "ok",
                      categoryGroups |-> GroupEntries(resp.category_groups)]
                ELSE [status |-> "error", categoryGroups |-> <<>>]
    /\ pc' = "done"
    /\ clock' = Undefined
    /\ apiArrays' = response'.category_groups
    /\ UNCHANGED <<cachedBudgets, defaultBudgetId>>

AssistantGetCategories ==
    /\ pc = "idle"
    /\ \E budgetId \in BudgetIds, resp \in CategoryResponses :
          /\ op' = "ClaudeYNABAssistant.getCategories"
          /\ params' = [budgetId |-> budgetId]
          /\ requests' = <<CategoriesRequest(budgetId)>>
          /\ response' = resp
          /\ result' =
                IF resp.ok
                THEN [status |-> "ok",
                      categoryGroups |-> GroupEntries(resp.category_groups)]
                ELSE [status |-> "error", categoryGroups |-> <<>>]
    /\ pc' = "done"
    /\ clock' = Undefined
    /\ apiArrays' = response'.category_groups
    /\ UNCHANGED <<cachedBudgets, defaultBudgetId>>

Return ==
    /\ pc = "done"
    /\ pc' = "idle"
    /\ op' = "none"
    /\ params' = <<>>
    /\ requests' = <<>>
    /\ response' = <<>>
    /\ result' = <<>>
    /\ clock' = Undefined
    /\ apiArrays' = <<>>
    /\ UNCHANGED <<cachedBudgets, defaultBudgetId>>

Init ==
    /\ pc = "idle"
    /\ op = "none"
    /\ params = <<>>
    /\ clock = Undefined
    /\ requests = <<>>
    /\ response = <<>>
    /\ result = <<>>
    /\ apiArrays = <<>>
    /\ cachedBudgets = NullArray
    /\ defaultBudgetId = Null

Next ==
    \/ CliListTransactions
    \/ AssistantGetTransactions
    \/ CliAddTransaction
    \/ AssistantAddTransaction
    \/ CliGetSummary
    \/ AssistantGetSummary
    \/ CliListCategories
    \/ AssistantGetCategories
    \/ Return

Spec == Init /\ [][Next]_vars

----------------------------------------------------------------------------
(* The assistant as an object that lives on between calls: initialize and  *)
(* executeCommand.                                                         *)

\* What a rejected request throws: the API's error object {error: {name,
\* detail}}, or an Error with a message (the network is down).  `arg` is the
\* value a message is built with.
ApiError ==
    [type |-> "api", message |-> Undefined, arg |-> Undefined,
     name |-> "unauthorized", detail |-> "Unauthorized"]

NetworkError ==
    [type |-> "Error", message |-> "fetch failed", arg |-> Undefined,
     name |-> Undefined, detail |-> Undefined]

Rejections == {ApiError, NetworkError}

\* new Error(`Unknown command: ${command}`)
UnknownCommand(command) ==
    [type |-> "Error", message |-> "Unknown command", arg |-> command,
     name |-> Undefined, detail |-> Undefined]

\* query.toLowerCase() of a query that was not passed
TypeError ==
    [type |-> "TypeError", message |-> "Cannot read properties of undefined",
     arg |-> Undefined, name |-> Undefined, detail |-> Undefined]

NoError ==
    [type |-> "none", message |-> Undefined, arg |-> Undefined,
     name |-> Undefined, detail |-> Undefined]

Thrown(error) == [status |-> "error", error |-> error]

BudgetLists ==
    {l \in UNION {[1..n -> [id : {"b1", "b2"}]] : n \in 0..MaxBudgets} :
        \A i, j \in 1..Len(l) : i # j => l[i].id # l[j].id}

BudgetsResponses ==
    {[ok |-> TRUE, budgets |-> l, error |-> NoError] : l \in BudgetLists}
        \cup {[ok |-> FALSE, budgets |-> <<>>, error |-> e] : e \in Rejections}

BudgetsRequest == [api |-> "budgets.getBudgets"]

\* if (this.cachedBudgets.length > 0)
\*     this.defaultBudgetId = this.cachedBudgets[0].id;
DefaultAfterInitialize(budgets, current) ==
    IF Len(budgets) > 0 THEN budgets[1].id ELSE current

Initialize ==
    /\ pc = "idle"
    /\ \E resp \in BudgetsResponses :
          /\ response' = resp
          /\ cachedBudgets' = IF resp.ok THEN Array(resp.budgets)
                              ELSE cachedBudgets
          /\ defaultBudgetId' =
                IF resp.ok
                THEN DefaultAfterInitialize(resp.budgets, defaultBudgetId)
                ELSE defaultBudgetId
          /\ result' = IF resp.ok
                       THEN [status |-> "ok", budgets |-> cachedBudgets',
                             defaultBudgetId |-> defaultBudgetId']
                       ELSE Thrown(resp.error)
    /\ op' = "ClaudeYNABAssistant.initialize"
    /\ params' = <<>>
    /\ requests' = <<BudgetsRequest>>
    /\ pc' = "done"
    /\ clock' = Undefined
    /\ apiArrays' = <<>>

\* The command names of executeCommand's switch, and two names it lacks.
KnownCommands ==
    {"get_budgets", "get_accounts", "get_transactions", "get_categories",
     "get_summary", "get_month", "add_transaction", "search_payees"}

\* The params object of a command that passes budgetId alone.
ParamsOf(budgetId) ==
    [budgetId |-> budgetId, limit |-> NoNumber, accountId |-> Undefined,
     categoryId |-> Undefined, since |-> Undefined, month |-> Undefined,
     transaction |-> Undefined, query |-> Undefined]

\* params.budgetId || this.defaultBudgetId
BudgetIdOrDefault(budgetId, default) == Or(budgetId, default)

AccountsRequest(budgetId) ==
    [api |-> "accounts.getAccounts", budgetId |-> budgetId]

ShortAccountLists == {l \in AccountLists : Len(l) <= Min(ShortAccounts, MaxAccounts)}

\* a => ({id, name, type, balance: this.formatCurrency(a.balance),
\*        balanceMilliunits: a.balance, onBudget: a.on_budget,
\*        closed: a.closed}); the accounts of the model carry their name as
\* their identity and no type.
ReturnedAccount(a) ==
    [name |-> a.name, balance |-> formatCurrency(a.balance),
     balanceMilliunits |-> a.balance, onBudget |-> a.on_budget,
     closed |-> a.closed]

ReturnedAccounts(accounts) ==
    [i \in 1..Len(accounts) |-> ReturnedAccount(accounts[i])]

MonthData(month) ==
    [month |-> month, income |-> MonthDetail.income,
     budgeted |-> MonthDetail.budgeted, activity |-> MonthDetail.activity,
     to_be_budgeted |-> MonthDetail.to_be_budgeted, age_of_money |-> 30,
     categories |-> <<[name |-> "Rent", budgeted |-> 1200000,
                       activity |-> -1200000, balance |-> 0]>>]

\* getMonth(budgetId, month = 'current')
MonthOrCurrent(month) == IF month = Undefined THEN "current" ELSE month

MonthRequest(budgetId, month) ==
    IF MonthOrCurrent(month) = "current"
    THEN [api |-> "months.getCurrentMonth", budgetId |-> budgetId,
          month |-> Undefined]
    ELSE [api |-> "months.getBudgetMonth", budgetId |-> budgetId,
          month |-> month]

MonthResponses(month) ==
    {[ok |-> TRUE,
      month |-> MonthData(IF MonthOrCurrent(month) = "current"
                          THEN "2024-02-01" ELSE month)],
     [ok |-> FALSE, month |-> <<>>]}

ReturnedMonth(monthData) ==
    [month |-> monthData.month,
     income |-> formatCurrency(monthData.income),
     budgeted |-> formatCurrency(monthData.budgeted),
     activity |-> formatCurrency(monthData.activity),
     toBeBudgeted |-> formatCurrency(monthData.to_be_budgeted),
     ageOfMoney |-> monthData.age_of_money,
     categories |->
         [i \in 1..Len(monthData.categories) |->
             [name |-> monthData.categories[i].name,
              budgeted |-> formatCurrency(monthData.categories[i].budgeted),
              activity |-> formatCurrency(monthData.categories[i].activity),
              balance |-> formatCurrency(monthData.categories[i].balance)]]]

toLowerCase(s) ==
    CASE s = "Store" -> "store"
      [] s = "STORE" -> "store"
      [] s = "Cafe" -> "cafe"
      [] OTHER -> s

includes(string, part) ==
    \/ part = EmptyString
    \/ string = part
    \/ <<string, part>> \in {<<"cafe", "a">>}

\* The payees of these names.
Payees(names) ==
    [i \in 1..Len(names) |->
        [id |-> i, name |-> names[i], transfer_account_id |-> Null]]

PayeesRequest(budgetId) == [api |-> "payees.getPayees", budgetId |-> budgetId]

Matches(payees, query) ==
    LET Test(p) == includes(toLowerCase(p.name), toLowerCase(query))
    IN  SelectSeq(payees, Test)

ReturnedPayees(matches) ==
    [i \in 1..Len(matches) |->
        [id |-> matches[i].id, name |-> matches[i].name,
         transferAccountId |-> matches[i].transfer_account_id]]

\* The filter's callback reads query.toLowerCase() once for every payee: a
\* query that was not passed throws there, unless there is no payee.
SearchPayeesResult(payees, query) ==
    IF query = Undefined /\ Len(payees) > 0
    THEN Thrown(TypeError)
    ELSE [status |-> "ok", payees |-> ReturnedPayees(Matches(payees, query))]

ShortSummaryResponses ==
    {r \in SummaryResponses : Len(r.accounts) <= Min(ShortAccounts, MaxAccounts)}

ShortCategoryResponses ==
    {r \in CategoryResponses :
        /\ Len(r.category_groups) <= 1
        /\ \A i \in 1..Len(r.category_groups) :
              Len(r.category_groups[i].categories) <= 1}

Answered(command, resp) ==
    IF command = "get_summary" THEN AllOk(resp) ELSE resp.ok

Call(command, p, resp, today) ==
    {[command |-> command, params |-> p, resp |-> resp, today |-> today,
      error |-> e] :
        e \in IF Answered(command, resp) THEN {NoError} ELSE Rejections}

CommandCalls(command, b) ==
    CASE command = "get_accounts" ->
            UNION {Call(command, ParamsOf(b), r, Undefined) :
                     r \in {[ok |-> TRUE, accounts |-> l] :
                               l \in ShortAccountLists}
                             \cup {[ok |-> FALSE, accounts |-> <<>>]}}
      [] command = "get_transactions" ->
            UNION {Call(command,
                        [ParamsOf(b) EXCEPT !.limit = l, !.accountId = a,
                                            !.categoryId = c, !.since = s],
                        r, Undefined) :
                     l \in LimitArgs, a \in AccountIdArgs,
                     c \in CategoryIdArgs, s \in SinceArgs,
                     r \in ShortTxResponses}
      [] command = "get_categories" ->
            UNION {Call(command, ParamsOf(b), r, Undefined) :
                     r \in ShortCategoryResponses}
      [] command = "get_summary" ->
            UNION {Call(command, ParamsOf(b), r, Undefined) :
                     r \in ShortSummaryResponses}
      [] command = "get_month" ->
            UNION {UNION {Call(command, [ParamsOf(b) EXCEPT !.month = m],
                               r, Undefined) :
                            r \in MonthResponses(m)} :
                     m \in {Undefined, "current", "2024-01-01"}}
      [] command = "add_transaction" ->
            UNION {UNION {Call(command,
                               [ParamsOf(b) EXCEPT !.transaction = x[1]],
                               r, x[2]) :
                            r \in CreateResponses(
                                AssistantOutboundTransaction(x[1], x[2]))} :
                     x \in {d \in TransactionData :
                               /\ d.accountId = "a1" /\ d.date = Undefined
                               /\ d.payee = "Store" /\ d.memo = Undefined
                               /\ d.categoryId = Undefined} \X Today}
      [] command = "search_payees" ->
            UNION {Call(command, [ParamsOf(b) EXCEPT !.query = q],
                        r, Undefined) :
                     q \in {Undefined, EmptyString, "STORE", "a", "x"},
                     r \in {[ok |-> TRUE, payees |-> Payees(f)] :
                               f \in UNION {[1..n -> {"Store", "Cafe"}] :
                                               n \in 0..MaxPayees}}
                             \cup {[ok |-> FALSE, payees |-> <<>>]}}
      [] OTHER ->
            {[command |-> command, params |-> ParamsOf(b), resp |-> <<>>,
              today |-> Undefined, error |-> NoError]}

\* A variant of getBudgets that asks the API again.
GetBudgetsAskingAgain == <<BudgetsRequest>>

\* getBudgets reads the cache and sends nothing.
GetBudgetsRequests == <<>>

\* The requests a command sends: none for a name the switch lacks.
CommandRequests(command, budgetId, p, today) ==
    CASE command = "get_budgets" -> GetBudgetsRequests
      [] command = "get_accounts" -> <<AccountsRequest(budgetId)>>
      [] command = "get_transactions" ->
            <<ListingRequest(budgetId, p.accountId, p.categoryId, p.since)>>
      [] command = "get_categories" -> <<CategoriesRequest(budgetId)>>
      [] command = "get_summary" -> SummaryRequests(budgetId)
      [] command = "get_month" -> <<MonthRequest(budgetId, p.month)>>
      [] command = "add_transaction" ->
            <<[api |-> "transactions.createTransaction",
               budgetId |-> budgetId,
               transaction |->
                   AssistantOutboundTransaction(p.transaction, today)]>>
      [] command = "search_payees" -> <<PayeesRequest(budgetId)>>
      [] OTHER -> <<>>

\* What executeCommand returns or throws.
CommandResult(command, p, resp, error, cache, default) ==
    CASE command = "get_budgets" ->
            [status |-> "ok", budgets |-> cache, default |-> default]
      [] command \notin KnownCommands -> Thrown(UnknownCommand(command))
      [] command \in KnownCommands \ {"get_budgets"}
            /\ ~Answered(command, resp) -> Thrown(error)
      [] command = "get_accounts" /\ resp.ok ->
            [status |-> "ok", accounts |-> ReturnedAccounts(resp.accounts)]
      [] command = "get_transactions" /\ resp.ok ->
            [status |-> "ok",
             transactions |->
                 MapReturned(AssistantFilterSortSlice(
                     resp.transactions, LimitOrDefault(p.limit)))]
      [] command = "get_categories" /\ resp.ok ->
            [status |-> "ok",
             categoryGroups |-> GroupEntries(resp.category_groups)]
      [] command = "get_summary" /\ AllOk(resp) -> AssistantSummary(resp)
      [] command = "get_month" /\ resp.ok ->
            [status |-> "ok", month |-> ReturnedMonth(resp.month)]
      [] command = "add_transaction" /\ resp.ok ->
            [status |-> "ok", created |-> resp.transaction]
      [] command = "search_payees" /\ resp.ok ->
            SearchPayeesResult(resp.payees, p.query)

ExecuteCommand ==
    /\ pc = "idle"
    /\ \E command \in KnownCommands \cup {"budgets", "delete_budget"},
          b \in {Undefined, "b2"} :
       \E call \in CommandCalls(command, b) :
          LET budgetId ==
                  BudgetIdOrDefault(call.params.budgetId, defaultBudgetId)
          IN  /\ op' = "ClaudeYNABAssistant.executeCommand"
              /\ params' = [command |-> call.command, params |-> call.params]
              /\ requests' = CommandRequests(call.command, budgetId,
                                             call.params, call.today)
              /\ response' = call.resp
              /\ result' = CommandResult(call.command, call.params, call.resp,
                                         call.error, cachedBudgets,
                                         defaultBudgetId)
              /\ clock' = call.today
    /\ pc' = "done"
    /\ apiArrays' = <<>>
    /\ UNCHANGED <<cachedBudgets, defaultBudgetId>>

SessionNext ==
    \/ Initialize
    \/ ExecuteCommand
    \/ Return

Session == Init /\ [][SessionNext]_vars

----------------------------------------------------------------------------
(* The three programs as processes: main of cli/ynab-cli.js, the CLI mode  *)
(* of cli/claude-ynab.js and verifyConnection.  A process runs to its      *)
(* first await, waits for the answers of the requests it sent, resumes     *)
(* when the awaited promise settles, and exits.                            *)
(*   op        the program                                                 *)
(*   params    the environment and the arguments of the process            *)
(*   requests  the requests sent so far                                    *)
(*   response  for every request its status (pending, ok, failed), the     *)
(*             data the API answers with, the error of a failure, and its  *)
(*             place in the order of arrival                               *)
(*   result    the lines printed so far and the exit code                  *)

\* console.error and console.log: a fixed text and the values put into it.
Line(stream, text, data) == [stream |-> stream, text |-> text, data |-> data]

Running(printed) == [printed |-> printed, exitCode |-> 0]

\* process.exit(code), or the end of the program (exit code 0).
Exited(printed, code) == [printed |-> printed, exitCode |-> code]

\* process.env.YNAB_ACCESS_TOKEN
Tokens == {Undefined, EmptyString, "token"}

\* A variant of the check that takes the empty token for a token.
TokenUndefined(token) == token = Undefined

\* if (!token)
NoToken(token) == ~Truthy(token)

\* args[0], args[1] and args[2] of the CLI.
CliCommands ==
    {"budgets", "accounts", "transactions", "categories", "summary",
     "interactive"}

\* parseInt on the limit arguments of the model.
parseInt(string) ==
    CASE string = "2" -> Number(2)
      [] string = "0" -> Number(0)
      [] OTHER -> NaN

\* args[2] ? parseInt(args[2]) : 20
LimitOfArgument(arg) == IF Truthy(arg) THEN parseInt(arg) ELSE Number(20)

\* A variant of the switch in which the case of categories lacks its break
\* and runs into the handler of the next case.
CliRequestsFallingThrough(command, budgetId) ==
    CASE command \in {"budgets", "interactive"} -> <<BudgetsRequest>>
      [] command = "accounts" -> <<AccountsRequest(budgetId)>>
      [] command = "transactions" ->
            <<[api |-> "transactions.getTransactions", budgetId |-> budgetId,
               filterId |-> Null, since |-> Null]>>
      [] command = "categories" ->
            <<CategoriesRequest(budgetId)>> \o SummaryRequests(budgetId)
      [] command = "summary" -> SummaryRequests(budgetId)

\* The requests a subcommand sends.
CliRequests(command, budgetId) ==
    CASE command \in {"budgets", "interactive"} -> <<BudgetsRequest>>
      [] command = "accounts" -> <<AccountsRequest(budgetId)>>
      [] command = "transactions" ->
            <<[api |-> "transactions.getTransactions", budgetId |-> budgetId,
               filterId |-> Null, since |-> Null]>>
      [] command = "categories" -> <<CategoriesRequest(budgetId)>>
      [] command = "summary" -> SummaryRequests(budgetId)

\* What the API answers to the requests of a subcommand if it answers.
BudgetsAnswers == {<<l>> : l \in BudgetLists}

SummaryAnswers ==
    {<<r.budget, r.accounts, r.month>> :
        r \in {x \in ShortSummaryResponses : AllOk(x)}}

CliAnswers(command) ==
    CASE command \in {"budgets", "interactive"} -> BudgetsAnswers
      [] command = "accounts" -> {<<l>> : l \in ShortAccountLists}
      [] command = "transactions" ->
            {<<r.transactions>> : r \in {x \in ShortTxResponses : x.ok}}
      [] command = "categories" ->
            {<<r.category_groups>> :
                r \in {x \in ShortCategoryResponses : x.ok}}
      [] command = "summary" -> SummaryAnswers

Pending(answers) ==
    [i \in 1..Len(answers) |->
        [status |-> "pending", data |-> answers[i], error |-> NoError,
         at |-> 0]]

\* The lines a subcommand prints before it awaits.
CliProgress(command, budgetId) ==
    CASE command = "budgets" -> <<Line("stdout", "Fetching your budgets", <<>>)>>
      [] command = "interactive" ->
            <<Line("stdout", "YNAB Interactive Mode", <<>>),
              Line("stdout", "Fetching your budgets", <<>>)>>
      [] command = "accounts" ->
            <<Line("stdout", "Fetching accounts for budget", budgetId)>>
      [] command = "transactions" ->
            <<Line("stdout", "Fetching recent transactions", <<>>)>>
      [] command = "categories" ->
            <<Line("stdout", "Fetching categories", <<>>)>>
      [] command = "summary" ->
            <<Line("stdout", "Fetching budget summary", <<>>)>>

\* What main and the CLI mode of the assistant print when there is no token.
TokenRequired(program) ==
    IF program = "main"
    THEN <<Line("stderr",
                "Error: YNAB_ACCESS_TOKEN environment variable is required",
                <<>>),
           Line("stdout", "Get your token from", <<>>),
           Line("stdout", "Usage", <<>>)>>
    ELSE <<Line("stderr", "YNAB_ACCESS_TOKEN environment variable required",
                <<>>),
           Line("stdout", "Get your token from", <<>>)>>

\* main up to its first await: the token check, the switch, the budget id
\* check of the subcommand, and the start of the subcommand's method.
CliMainStart ==
    /\ pc = "idle"
    /\ \E token \in Tokens,
          command \in CliCommands \cup {Undefined, "add-transaction", "help"},
          budgetId \in {Undefined, EmptyString, "b1"},
          limit \in {Undefined, "2", "0", "abc"} :
          /\ params' = [token |-> token, command |-> command,
                        budgetId |-> budgetId, limit |-> limit]
          /\ IF NoToken(token)
             THEN /\ result' = Exited(TokenRequired("main"), 1)
                  /\ pc' = "exited"
                  /\ requests' = <<>>
                  /\ response' = <<>>
             ELSE IF command \notin CliCommands
             THEN /\ result' = Exited(<<Line("stdout", "Available commands", <<>>)>>, 0)
                  /\ pc' = "exited"
                  /\ requests' = <<>>
                  /\ response' = <<>>
             ELSE IF /\ command \in {"accounts", "transactions", "categories",
                                     "summary"}
                     /\ ~Truthy(budgetId)
             THEN /\ result' = Exited(<<Line("stderr", "Budget ID required. Usage",
                                                command)>>, 1)
                  /\ pc' = "exited"
                  /\ requests' = <<>>
                  /\ response' = <<>>
             ELSE /\ result' = Running(CliProgress(command, budgetId))
                  /\ pc' = "awaiting"
                  /\ requests' = CliRequests(command, budgetId)
                  /\ \E answers \in CliAnswers(command) :
                        response' = Pending(answers)
    /\ op' = "main"
    /\ clock' = Undefined
    /\ apiArrays' = <<>>
    /\ UNCHANGED <<cachedBudgets, defaultBudgetId>>

\* A variant of the join that goes on at the first answer.
AnySucceeded(answers) ==
    \E i \in 1..Len(answers) : answers[i].status = "ok"

\* await and Promise.all: the awaited promise is fulfilled when every
\* request is answered, and rejected when one request fails.
AllSucceeded(answers) ==
    \A i \in 1..Len(answers) : answers[i].status = "ok"

Rejected(answers) ==
    \E i \in 1..Len(answers) : answers[i].status = "failed"

\* The error the awaited promise is rejected with.
ThrownError(answers) ==
    answers[CHOOSE i \in 1..Len(answers) : answers[i].status = "failed"].error

\* The API answers one of the pending requests, or the request fails.
Arrive ==
    /\ pc = "awaiting"
    /\ \E i \in 1..Len(response),
          outcome \in {[status |-> "ok", error |-> NoError]}
                          \cup {[status |-> "failed", error |-> e] :
                                   e \in Rejections} :
          LET arrived == Cardinality({j \in 1..Len(response) :
                                         response[j].status # "pending"})
          IN  /\ response[i].status = "pending"
              /\ response' = [response EXCEPT ![i].status = outcome.status,
                                              ![i].error = outcome.error,
                                              ![i].at = arrived + 1]
    /\ pc' = IF Rejected(response') THEN "rejected"
             ELSE IF AllSucceeded(response') THEN "resolved"
             ELSE "awaiting"
    /\ UNCHANGED <<op, params, clock, requests, result, apiArrays,
                   cachedBudgets, defaultBudgetId>>

\* The lines of listBudgets, listAccounts, listTransactions, listCategories,
\* getSummary and interactive after their await.
BudgetLines(budgets) ==
    IF Len(budgets) = 0
    THEN <<Line("stdout", "No budgets found.", <<>>)>>
    ELSE <<Line("stdout", "Found budget(s)", budgets)>>

AccountLines(accounts) ==
    IF Len(accounts) = 0
    THEN <<Line("stdout", "No accounts found.", <<>>)>>
    ELSE <<Line("stdout", "Found account(s)", ReturnedAccounts(accounts))>>

TransactionLines(transactions, limit) ==
    LET shown == CliFilterSortSlice(transactions, LimitOrDefault(limit))
    IN  IF Len(shown) = 0
        THEN <<Line("stdout", "No transactions found.", <<>>)>>
        ELSE <<Line("stdout", "Showing most recent transactions", shown)>>

SummaryOf(answers) ==
    [budgetOk |-> TRUE, accountsOk |-> TRUE, monthOk |-> TRUE,
     budget |-> answers[1].data, accounts |-> answers[2].data,
     month |-> answers[3].data]

CliOutput(command, limit, answers) ==
    CASE command = "budgets" -> BudgetLines(answers[1].data)
      [] command = "interactive" ->
            BudgetLines(answers[1].data)
                \o <<Line("stdout", "Copy your budget ID", <<>>)>>
      [] command = "accounts" -> AccountLines(answers[1].data)
      [] command = "transactions" ->
            TransactionLines(answers[1].data, LimitOfArgument(limit))
      [] command = "categories" ->
            <<Line("stdout", "Categories", GroupEntries(answers[1].data))>>
      [] command = "summary" ->
            <<Line("stdout", "Budget summary", CliSummary(SummaryOf(answers)))>>

\* A variant of main's catch that prints nothing.
CliCatchSilent(error) == <<>>

\* console.error('Error:', error.message);
\* if (error.error) console.error(`${error.error.name}: ${error.error.detail}`);
CliCatch(error) ==
    <<Line("stderr", "Error:", error.message)>>
        \o IF error.type = "api"
           THEN <<Line("stderr", "name: detail", <<error.name, error.detail>>)>>
           ELSE <<>>

ExitFailure == 1

\* main after its await: the rest of the subcommand's method and the end
\* of the program, or the catch block.
CliMainResume ==
    /\ op = "main"
    /\ \/ /\ pc = "resolved"
          /\ result' = Exited(result.printed
                                  \o CliOutput(params.command, params.limit,
                                               response), 0)
       \/ /\ pc = "rejected"
          /\ result' = Exited(result.printed \o CliCatch(ThrownError(response)),
                              ExitFailure)
    /\ pc' = "exited"
    /\ UNCHANGED <<op, params, clock, requests, response, apiArrays,
                   cachedBudgets, defaultBudgetId>>

\* The CLI mode of cli/claude-ynab.js up to the await inside initialize:
\* the token check, the constructor, and the request of initialize.
AssistantCliStart ==
    /\ pc = "idle"
    /\ \E token \in Tokens :
          /\ params' = [token |-> token]
          /\ IF NoToken(token)
             THEN /\ result' = Exited(TokenRequired("claude-ynab"), 1)
                  /\ pc' = "exited"
                  /\ requests' = <<>>
                  /\ response' = <<>>
             ELSE /\ result' = Running(<<>>)
                  /\ pc' = "awaiting"
                  /\ requests' = <<BudgetsRequest>>
                  /\ \E answers \in BudgetsAnswers :
                        response' = Pending(answers)
    /\ op' = "claude-ynab"
    /\ cachedBudgets' = NullArray
    /\ defaultBudgetId' = Null
    /\ clock' = Undefined
    /\ apiArrays' = <<>>

\* .catch(error => { console.error('Error:', error.message); ... })
AssistantCatch(error) == <<Line("stderr", "Error:", error.message)>>

InitializedLines(budgets) ==
    <<Line("stdout", "Claude YNAB Assistant initialized", <<>>),
      Line("stdout", "Found budget(s)", Len(budgets))>>
        \o IF Len(budgets) > 0
           THEN <<Line("stdout", "Default budget", budgets[1].id)>>
           ELSE <<>>

SummaryLines(summary) ==
    <<Line("stdout", "Current Month Summary",
           [currentMonth |-> summary.currentMonth,
            totalBalance |-> summary.totalBalance]),
      Line("stdout", "Ready for Claude to manage your budget!", <<>>)>>

\* The CLI mode after an await: the rest of initialize and the then
\* callback up to the await of getSummary, the rest of the then callback,
\* or the catch callback.
AssistantCliResume ==
    /\ op = "claude-ynab"
    /\ \/ /\ pc = "resolved"
          /\ Len(requests) = 1
          /\ LET budgets == response[1].data IN
             /\ cachedBudgets' = Array(budgets)
             /\ defaultBudgetId' =
                    DefaultAfterInitialize(budgets, defaultBudgetId)
             /\ IF Len(budgets) > 0
                THEN /\ result' = Running(result.printed
                                              \o InitializedLines(budgets))
                     /\ requests' =
                            requests \o SummaryRequests(defaultBudgetId')
                     /\ \E answers \in SummaryAnswers :
                           response' = response \o Pending(answers)
                     /\ pc' = "awaiting"
                ELSE /\ result' = Exited(result.printed
                                             \o InitializedLines(budgets), 0)
                     /\ pc' = "exited"
                     /\ UNCHANGED <<requests, response>>
       \/ /\ pc = "resolved"
          /\ Len(requests) > 1
          /\ result' =
                Exited(result.printed
                           \o SummaryLines(AssistantSummary(
                                  SummaryOf(SubSeq(response, 2, 4)))), 0)
          /\ pc' = "exited"
          /\ UNCHANGED <<requests, response, cachedBudgets, defaultBudgetId>>
       \/ /\ pc = "rejected"
          /\ result' = Exited(result.printed
                                  \o AssistantCatch(ThrownError(response)),
                              ExitFailure)
          /\ pc' = "exited"
          /\ UNCHANGED <<requests, response, cachedBudgets, defaultBudgetId>>
    /\ UNCHANGED <<op, params, clock, apiArrays>>

\* The lines of verifyConnection's first step, and those of a missing token.
VerifyLines(step) ==
    IF step = "configuration"
    THEN <<Line("stdout", "YNAB Connection Verification", <<>>),
           Line("stdout", "Checking configuration", <<>>)>>
    ELSE <<Line("stdout", "No access token provided", <<>>),
           Line("stdout", "To test the API connection, run", <<>>)>>

\* verifyConnection up to its first await on the API: the configuration is
\* read, the token is looked for, and getUser is called.
VerifyConnectionStart ==
    /\ pc = "idle"
    /\ \E token \in Tokens, config \in {"readable", "unreadable"} :
          /\ params' = [token |-> token, config |-> config]
          /\ IF config = "unreadable"
             THEN /\ result' =
                        Exited(VerifyLines("configuration")
                                   \o <<Line("stderr", "Error reading config",
                                             <<>>)>>, 1)
                  /\ pc' = "exited"
                  /\ requests' = <<>>
                  /\ response' = <<>>
             ELSE IF NoToken(token)
             THEN /\ result' =
                        Exited(VerifyLines("configuration")
                                   \o <<Line("stdout", "Config file found",
                                             <<>>)>>
                                   \o VerifyLines("no token"), 0)
                  /\ pc' = "exited"
                  /\ requests' = <<>>
                  /\ response' = <<>>
             ELSE /\ result' =
                        Running(VerifyLines("configuration")
                                    \o <<Line("stdout", "Config file found",
                                              <<>>),
                                         Line("stdout", "Access token found",
                                              <<>>)>>)
                  /\ pc' = "awaiting"
                  /\ requests' = <<[api |-> "user.getUser"]>>
                  /\ \E answers \in {<<[id |-> "u1"]>>} :
                        response' = Pending(answers)
    /\ op' = "verifyConnection"
    /\ clock' = Undefined
    /\ apiArrays' = <<>>
    /\ UNCHANGED <<cachedBudgets, defaultBudgetId>>

\* if (err.error) console.error(`Error: ${err.error.name} - ${err.error.detail}`);
\* else console.error(`Error: ${err.message}`);
VerifyCatch(err) ==
    <<Line("stderr", "API connection failed", <<>>),
      IF err.type = "api"
      THEN Line("stderr", "Error: name - detail", <<err.name, err.detail>>)
      ELSE Line("stderr", "Error:", err.message),
      Line("stdout", "Possible issues", <<>>)>>

\* verifyConnection after an await: the budgets are asked for, or listed,
\* or the catch block runs.
VerifyConnectionResume ==
    /\ op = "verifyConnection"
    /\ \/ /\ pc = "resolved"
          /\ Len(requests) = 1
          /\ result' = Running(result.printed
                                   \o <<Line("stdout",
                                             "Successfully connected",
                                             response[1].data.id)>>)
          /\ requests' = requests \o <<BudgetsRequest>>
          /\ \E answers \in BudgetsAnswers :
                response' = response \o Pending(answers)
          /\ pc' = "awaiting"
       \/ /\ pc = "resolved"
          /\ Len(requests) > 1
          /\ result' =
                Exited(result.printed
                           \o BudgetLines(response[2].data)
                           \o <<Line("stdout",
                                     "YNAB connection verified successfully!",
                                     <<>>)>>, 0)
          /\ pc' = "exited"
          /\ UNCHANGED <<requests, response>>
       \/ /\ pc = "rejected"
          /\ result' = Exited(result.printed
                                  \o VerifyCatch(ThrownError(response)),
                              ExitFailure)
          /\ pc' = "exited"
          /\ UNCHANGED <<requests, response>>
    /\ UNCHANGED <<op, params, clock, apiArrays, cachedBudgets,
                   defaultBudgetId>>

\* The process is gone; the next one starts with nothing of it.
NewProcess ==
    /\ pc = "exited"
    /\ pc' = "idle"
    /\ op' = "none"
    /\ params' = <<>>
    /\ requests' = <<>>
    /\ response' = <<>>
    /\ result' = <<>>
    /\ clock' = Undefined
    /\ apiArrays' = <<>>
    /\ cachedBudgets' = NullArray
    /\ defaultBudgetId' = Null

ProcessNext ==
    \/ CliMainStart
    \/ AssistantCliStart
    \/ VerifyConnectionStart
    \/ Arrive
    \/ CliMainResume
    \/ AssistantCliResume
    \/ VerifyConnectionResume
    \/ NewProcess

Processes == Init /\ [][ProcessNext]_vars

\* The event loop runs the continuation of a settled promise.
FairProcesses ==
    /\ Processes
    /\ WF_vars(CliMainResume)
    /\ WF_vars(AssistantCliResume)
    /\ WF_vars(VerifyConnectionResume)






----------------------------------------------------------------------------
(* What the claims speak about. *)

Listing ==
    /\ pc = "done"
    /\ op \in {"YNABCli.listTransactions", "ClaudeYNABAssistant.getTransactions"}
    /\ result.status = "ok"

Adding ==
    /\ pc = "done"
    /\ op \in {"YNABCli.addTransaction", "ClaudeYNABAssistant.addTransaction"}

Summarised ==
    /\ pc = "done"
    /\ op \in {"YNABCli.getSummary", "ClaudeYNABAssistant.getSummary"}
    /\ result.status = "ok"

\* The transactions of the output, and the record of the API's list that an
\* entry of the output shows.
Shown == result.transactions
Source(entry) == response.transactions[entry.id]
ShownIds == {Shown[i].id : i \in 1..Len(Shown)}

\* A record the spec lets through: approved and not deleted.
Qualifies(t) == t.approved /\ ~t.deleted

\* The records the handler's own filter lets through.
KeptByHandler ==
    IF op = "YNABCli.listTransactions"
    THEN {j \in 1..Len(response.transactions) : response.transactions[j].approved}
    ELSE {j \in 1..Len(response.transactions) :
             Qualifies(response.transactions[j])}

\* The transaction sent to createTransaction and the input it was built from.
Data == params.transactionData
CreateRequests ==
    {i \in 1..Len(requests) : requests[i].api = "transactions.createTransaction"}
Outbound == requests[1].transaction

----------------------------------------------------------------------------
\* C1: every transaction that listTransactions shows and that getTransactions
\* returns is approved and not deleted in the list the API returned.
C1_ShownAreApprovedNotDeleted ==
    Listing => \A i \in 1..Len(Shown) : Qualifies(Source(Shown[i]))

----------------------------------------------------------------------------
\* C2: with an absent or empty accountId, addTransaction fails with a
\* validation error and sends no createTransaction request.
C2_MissingAccountIdIsRejected ==
    (Adding /\ Data.accountId \in {Undefined, EmptyString})
        => /\ result.status = "validation error"
           /\ CreateRequests = {}

----------------------------------------------------------------------------
\* C3: with an amount that is missing, non-numeric or not finite,
\* addTransaction fails with a validation error, and no transaction whose
\* amount is not an integer of milliunits is passed to createTransaction.
C3_InvalidAmountIsRejected ==
    Adding =>
        /\ Data.amount.kind # "number" => result.status = "validation error"
        /\ \A i \in CreateRequests :
              requests[i].transaction.amount.kind = "number"

----------------------------------------------------------------------------
\* C4: the milliunits of the outbound transaction are the amount times 1000
\* rounded to the nearest integer, a tie broken away from zero or to the even
\* neighbour, and the amounts d and -d give results that are negatives of each
\* other.
RoundHalfAwayFromZero(n) ==
    IF n >= 0 THEN (n + 5) \div 10 ELSE 0 - ((0 - n + 5) \div 10)

RoundHalfToEven(n) ==
    LET low == n \div 10
        rest == n - 10 * low
    IN  IF rest < 5 THEN low
        ELSE IF rest > 5 THEN low + 1
        ELSE IF low % 2 = 0 THEN low ELSE low + 1

C4_RoundsTiesSymmetrically ==
    (Adding /\ Data.amount.kind = "number") =>
        /\ Outbound.amount.kind = "number"
        /\ Outbound.amount.n \in {RoundHalfAwayFromZero(Data.amount.n),
                                  RoundHalfToEven(Data.amount.n)}
        /\ Outbound.amount.n =
              0 - RoundMilliunits(Number(0 - Data.amount.n)).n

----------------------------------------------------------------------------
\* C5: the outbound transaction is approved unless the input sets approved to
\* false, and is not approved when it does.
C5_ApprovedUnlessSetFalse ==
    Adding => (Outbound.approved <=> Data.approved # JsFalse)

----------------------------------------------------------------------------
\* C6 as stated: the outbound transaction carries the supplied date, or the
\* current date when none is supplied; the supplied categoryId and memo, or
\* null when they are not supplied; accountId and payee unchanged.
C6_SuppliedFieldsAreCarried ==
    Adding =>
        /\ Outbound.date = IF Data.date = Undefined THEN clock ELSE Data.date
        /\ Outbound.category_id =
              IF Data.categoryId = Undefined THEN Null ELSE Data.categoryId
        /\ Outbound.memo = IF Data.memo = Undefined THEN Null ELSE Data.memo
        /\ Outbound.account_id = Data.accountId
        /\ Outbound.payee_name = Data.payee

\* C6 as amended: a date, categoryId or memo that is supplied as the empty
\* string (or as another falsy value, such as null) counts as not supplied:
\* the date is then the current date, the categoryId or memo null.  Any other
\* value is carried unchanged, and accountId and payee are copied whatever
\* they are.
Blank == {Undefined, Null, EmptyString}

C6_NonEmptyFieldsAreCarried ==
    Adding =>
        /\ Data.date \in Blank => Outbound.date = clock
        /\ Data.date \notin Blank => Outbound.date = Data.date
        /\ Data.categoryId \in Blank => Outbound.category_id = Null
        /\ Data.categoryId \notin Blank => Outbound.category_id = Data.categoryId
        /\ Data.memo \in Blank => Outbound.memo = Null
        /\ Data.memo \notin Blank => Outbound.memo = Data.memo
        /\ Outbound.account_id = Data.accountId
        /\ Outbound.payee_name = Data.payee

\* An addTransaction with an empty memo, a category and no date has run.
C6_Witness ==
    /\ Adding
    /\ Data.date = Undefined /\ Outbound.date = clock /\ clock \in Today
    /\ Data.memo = EmptyString /\ Outbound.memo = Null
    /\ Data.categoryId = "c1" /\ Outbound.category_id = "c1"

----------------------------------------------------------------------------
\* C7: the output is ordered by date descending, and no qualifying record
\* that is left out has a later date than a record of the output.
C7_SortedByDateDescending ==
    Listing =>
        /\ \A i \in 1..(Len(Shown) - 1) : Shown[i].date >= Shown[i + 1].date
        /\ \A j \in 1..Len(response.transactions) :
              (Qualifies(response.transactions[j]) /\ j \notin ShownIds)
                  => \A i \in 1..Len(Shown) :
                        response.transactions[j].date <= Shown[i].date

\* A listing whose API list was in ascending order came out in descending
\* order, with a qualifying record cut off by the limit.
C7_Witness ==
    /\ Listing
    /\ Len(Shown) = 2
    /\ Shown[1].date > Shown[2].date
    /\ Shown[1].id > Shown[2].id
    /\ \E j \in 1..Len(response.transactions) :
          /\ Qualifies(response.transactions[j])
          /\ j \notin ShownIds
          /\ response.transactions[j].date < Shown[2].date

----------------------------------------------------------------------------
\* C8: with a limit >= 0, limit 0 included, the output has
\* min(limit, number of records the filter keeps) entries.
C8_LengthIsMinOfLimit ==
    (Listing /\ params.limit.kind = "number")
        => Len(Shown) = Min(params.limit.n, Cardinality(KeptByHandler))

----------------------------------------------------------------------------
\* C9: two transactions of the output with equal dates are in the order they
\* had in the list the API returned.
C9_SortIsStable ==
    Listing =>
        \A i, j \in 1..Len(Shown) :
            (i < j /\ Shown[i].date = Shown[j].date) => Shown[i].id < Shown[j].id

\* Two records of equal date are in the output behind a record that the API
\* had listed after them.
C9_Witness ==
    /\ Listing
    /\ Len(Shown) = 3
    /\ Shown[2].date = Shown[3].date
    /\ Shown[1].date > Shown[2].date
    /\ Shown[1].id > Shown[3].id

----------------------------------------------------------------------------
\* C10: the on-budget total of getSummary is the sum of the balances, in
\* milliunits, of the accounts that are not closed and are on budget, 0 for
\* an empty account list, and it is formatted after it is summed.
RECURSIVE SumOfBalances(_, _)
SumOfBalances(accounts, indices) ==
    IF indices = {} THEN 0
    ELSE LET i == CHOOSE k \in indices : TRUE
         IN  accounts[i].balance + SumOfBalances(accounts, indices \ {i})

OnBudgetIndices(accounts) ==
    {i \in 1..Len(accounts) :
        accounts[i].closed = FALSE /\ accounts[i].on_budget = TRUE}

C10_TotalIsOnBudgetSum ==
    Summarised =>
        LET total == SumOfBalances(response.accounts,
                                   OnBudgetIndices(response.accounts))
        IN  /\ result.totalMilliunits = total
            /\ result.totalBalance = formatCurrency(total)
            /\ response.accounts = <<>> => result.totalMilliunits = 0

\* A summary of a closed on-budget account, an open off-budget account and
\* two open on-budget accounts whose balances round to nothing one by one.
C10_Witness ==
    /\ Summarised
    /\ \E i, j, k, l \in 1..Len(response.accounts) :
          /\ i # j
          /\ response.accounts[i].balance = 4
          /\ response.accounts[j].balance = 4
          /\ OnBudgetOpen(response.accounts[i])
          /\ OnBudgetOpen(response.accounts[j])
          /\ response.accounts[k].closed /\ response.accounts[k].on_budget
          /\ ~response.accounts[l].closed /\ ~response.accounts[l].on_budget
    /\ result.totalMilliunits = 8
    /\ result.totalBalance.cents = 1

----------------------------------------------------------------------------
(* The category listing of the claims. *)

CategoriesListed ==
    /\ pc = "done"
    /\ op \in {"YNABCli.listCategories", "ClaudeYNABAssistant.getCategories"}
    /\ result.status = "ok"

ApiGroups == response.category_groups
Listed == result.categoryGroups
ListedGroupIds == {Listed[i].groupId : i \in 1..Len(Listed)}
ListedCategoryIds(entry) ==
    {entry.categories[j].id : j \in 1..Len(entry.categories)}

\* The flags the API gave the category with this id.
ApiCategory(id) ==
    LET g == ApiGroups[id \div 10] IN g.categories[id % 10]

Flagged(x) == x.hidden \/ x.deleted

\* C11: the listing has no hidden or deleted group and, in a listed group, no
\* hidden or deleted category; every group and every category of a listed
\* group with neither flag is listed; and the listed groups and categories
\* are in the order of the API response.
C11_ListingIsTheVisibleOnesInOrder ==
    CategoriesListed =>
        /\ \A i \in 1..Len(Listed) :
              /\ ~Flagged(ApiGroups[Listed[i].groupId])
              /\ \A id \in ListedCategoryIds(Listed[i]) :
                    /\ id \div 10 = Listed[i].groupId
                    /\ ~Flagged(ApiCategory(id))
              /\ \A j \in 1..Len(ApiGroups[Listed[i].groupId].categories) :
                    LET c == ApiGroups[Listed[i].groupId].categories[j]
                    IN  ~Flagged(c) => c.id \in ListedCategoryIds(Listed[i])
              /\ \A j \in 1..(Len(Listed[i].categories) - 1) :
                    Listed[i].categories[j].id < Listed[i].categories[j + 1].id
        /\ \A g \in 1..Len(ApiGroups) :
              ~Flagged(ApiGroups[g]) => g \in ListedGroupIds
        /\ \A i \in 1..(Len(Listed) - 1) : Listed[i].groupId < Listed[i + 1].groupId

\* A listing of three groups that drops the deleted second group and the
\* hidden category of the first, and lists the category of the third.
C11_Witness ==
    /\ CategoriesListed
    /\ Len(ApiGroups) = 3
    /\ ApiGroups[2].deleted /\ ~ApiGroups[2].hidden
    /\ Len(ApiGroups[1].categories) = 1 /\ ApiGroups[1].categories[1].hidden
    /\ Len(ApiGroups[3].categories) = 1
    /\ Len(Listed) = 2
    /\ Listed[1].groupId = 1 /\ Listed[1].categories = <<>>
    /\ Listed[2].groupId = 3 /\ Len(Listed[2].categories) = 1

\* C12: a group that is neither hidden nor deleted and whose categories are
\* all hidden or deleted is in the listing, with an empty category list.
C12_EmptiedGroupIsKept ==
    CategoriesListed =>
        \A g \in 1..Len(ApiGroups) :
            (/\ ~Flagged(ApiGroups[g])
             /\ \A j \in 1..Len(ApiGroups[g].categories) :
                   Flagged(ApiGroups[g].categories[j]))
                => \E i \in 1..Len(Listed) :
                      /\ Listed[i].groupId = g
                      /\ Listed[i].categories = <<>>

\* A visible group of two categories, one hidden and one deleted, is listed
\* with no category.
C12_Witness ==
    /\ CategoriesListed
    /\ Len(ApiGroups) = 1
    /\ ~Flagged(ApiGroups[1])
    /\ Len(ApiGroups[1].categories) = 2
    /\ ApiGroups[1].categories[1].hidden
    /\ ApiGroups[1].categories[2].deleted
    /\ Len(Listed) = 1
    /\ Listed[1].categories = <<>>

----------------------------------------------------------------------------
\* C19: the handlers leave the sequences of the API response as they were
\* received: the transaction list keeps its elements and their order (the
\* sort works on the array that filter made), and so do the category groups
\* and the accounts, with every field of every record.
C19_ApiSequencesUnchanged ==
    /\ Listing => apiArrays = response.transactions
    /\ CategoriesListed => apiArrays = response.category_groups
    /\ Summarised => apiArrays = response.accounts

\* A listing that dropped the first record and put the third in front of the
\* second, while the list of the API still holds the three in their order.
C19_Witness ==
    /\ Listing
    /\ Len(response.transactions) = 3
    /\ Len(Shown) = 2
    /\ Shown[1].id = 3 /\ Shown[2].id = 2
    /\ Len(apiArrays) = 3
    /\ \A i \in 1..3 : apiArrays[i].id = i

----------------------------------------------------------------------------
(* Claims about the assistant between calls.                               *)

\* C20: after any sequence of initialize and executeCommand calls,
\* defaultBudgetId is null when cachedBudgets is null or empty, and is
\* otherwise the id of the first element of cachedBudgets.
C20_DefaultIsFirstCachedBudget ==
    defaultBudgetId =
        IF cachedBudgets.null \/ Len(cachedBudgets.items) = 0
        THEN Null
        ELSE cachedBudgets.items[1].id

Commanded == pc = "done" /\ op = "ClaudeYNABAssistant.executeCommand"

CommandIs(command) == Commanded /\ params.command = command

\* The data a command returns is data of the answer to its own request.
FromThisAnswer ==
    /\ CommandIs("get_accounts") /\ result.status = "ok" =>
          /\ Len(result.accounts) = Len(response.accounts)
          /\ \A i \in 1..Len(result.accounts) :
                result.accounts[i].balanceMilliunits =
                    response.accounts[i].balance
    /\ CommandIs("get_transactions") /\ result.status = "ok" =>
          \A i \in 1..Len(result.transactions) :
              /\ result.transactions[i].id \in 1..Len(response.transactions)
              /\ response.transactions[result.transactions[i].id].date =
                     result.transactions[i].date
    /\ CommandIs("get_categories") /\ result.status = "ok" =>
          \A i \in 1..Len(result.categoryGroups) :
              \E j \in 1..Len(response.category_groups) :
                  response.category_groups[j].id =
                      result.categoryGroups[i].groupId
    /\ CommandIs("get_summary") /\ result.status = "ok" =>
          /\ result.budget = response.budget
          /\ \A i \in 1..Len(result.accounts) :
                \E j \in 1..Len(response.accounts) :
                    /\ response.accounts[j].name = result.accounts[i].name
                    /\ formatCurrency(response.accounts[j].balance) =
                           result.accounts[i].balance
    /\ CommandIs("get_month") /\ result.status = "ok" =>
          result.month.month = response.month.month
    /\ CommandIs("add_transaction") /\ result.status = "ok" =>
          result.created = response.transaction
    /\ CommandIs("search_payees") /\ result.status = "ok" =>
          \A i \in 1..Len(result.payees) :
              /\ result.payees[i].id \in 1..Len(response.payees)
              /\ response.payees[result.payees[i].id].name =
                     result.payees[i].name

----------------------------------------------------------------------------
(* Claims about the three programs.                                        *)

Ended == pc = "exited"

Program(name) == Ended /\ op = name

Prints(stream, text) ==
    \E i \in 1..Len(result.printed) :
        /\ result.printed[i].stream = stream
        /\ result.printed[i].text = text

TokenAbsent == ~Truthy(params.token)

\* C13 as stated: with the access token absent, each of the three programs
\* reports the configuration error, ends with a non-zero exit code, and has
\* made no request.
C13_MissingTokenIsFatal ==
    Ended /\ TokenAbsent =>
        /\ result.exitCode # 0
        /\ requests = <<>>
        /\ \E i \in 1..Len(result.printed) : result.printed[i].stream = "stderr"

\* C13, amended: with the access token absent or empty no program makes a
\* request; main and the assistant's CLI mode print the token error on
\* stderr and exit with code 1; verifyConnection, its configuration read,
\* prints the notice "No access token provided" on stdout and ends with
\* exit code 0.
C13_MissingTokenEndsBeforeAnyRequest ==
    /\ pc # "idle" /\ TokenAbsent => Ended /\ requests = <<>>
    /\ Program("main") /\ TokenAbsent =>
          /\ result.exitCode = 1
          /\ Prints("stderr",
                    "Error: YNAB_ACCESS_TOKEN environment variable is required")
    /\ Program("claude-ynab") /\ TokenAbsent =>
          /\ result.exitCode = 1
          /\ Prints("stderr", "YNAB_ACCESS_TOKEN environment variable required")
    /\ Program("verifyConnection") /\ TokenAbsent
          /\ params.config = "readable" =>
          /\ result.exitCode = 0
          /\ Prints("stdout", "No access token provided")
          /\ ~\E i \in 1..Len(result.printed) :
                 result.printed[i].stream = "stderr"

C13_Witness ==
    /\ Program("verifyConnection")
    /\ params.token = Undefined
    /\ params.config = "readable"
    /\ result.exitCode = 0
    /\ requests = <<>>

\* The half of C14 about executeCommand: a name the switch lacks throws
\* the unknown-command error and sends nothing.
UnknownCommandThrows ==
    Commanded /\ params.command \notin KnownCommands =>
        /\ result = Thrown(UnknownCommand(params.command))
        /\ requests = <<>>

\* C14: a command name that is not recognized, passed to executeCommand or
\* given as the subcommand of the CLI, fails with an unknown-command error
\* (it does not complete successfully) and no request is sent for it.
C14_UnknownCommandFails ==
    /\ UnknownCommandThrows
    /\ Program("main") /\ ~TokenAbsent
          /\ params.command \notin CliCommands \cup {Undefined} =>
          /\ result.exitCode # 0
          /\ requests = <<>>
          /\ \E i \in 1..Len(result.printed) : result.printed[i].stream = "stderr"

RemoteFailure ==
    Ended /\ Rejected(response) /\ ThrownError(response).type = "api"

\* C17: when a request fails with an error of the API that carries a name
\* and a detail, the handler of each of the three programs prints that name
\* and that detail, as they are, before the program exits.
C17_RemoteErrorIsPrinted ==
    RemoteFailure =>
        \E i \in 1..Len(result.printed) :
            /\ result.printed[i].text \in {"name: detail", "Error: name - detail"}
            /\ result.printed[i].data =
                   <<ThrownError(response).name, ThrownError(response).detail>>

\* The answers to the three requests of getSummary, in a process that has
\* sent them: the subcommand summary, and the CLI mode of the assistant.
SummaryAsked ==
    \/ op = "main" /\ Len(requests) = 3
    \/ op = "claude-ynab" /\ Len(requests) = 4

Three ==
    IF op = "main" THEN response ELSE SubSeq(response, 2, 4)

ThreeHave(status) == {i \in 1..3 : Three[i].status = status}

SummaryPrinted ==
    \E i \in 1..Len(result.printed) :
        result.printed[i].text \in {"Budget summary", "Current Month Summary"}

ExpectedSummaryLine ==
    IF op = "main"
    THEN Line("stdout", "Budget summary", CliSummary(SummaryOf(Three)))
    ELSE Line("stdout", "Current Month Summary",
              [currentMonth |-> MonthLines(Three[3].data),
               totalBalance |->
                   formatCurrency(TotalBalance(Three[2].data))])

\* C16: the three requests of getSummary are sent together; in whatever
\* order the answers arrive, a summary is printed only when all three have
\* succeeded, and it is the summary of the three answers; when one of the
\* three fails, whatever has become of the other two, no summary is printed,
\* not even a part of it, and the program exits with code 1.
C16_SummaryJoinsTheThree ==
    /\ op = "main" /\ pc # "idle" /\ params.command = "summary" =>
          Len(requests) \in {0, 3}
    /\ op = "claude-ynab" => Len(requests) \in {0, 1, 4}
    /\ pc \notin {"idle", "done"} /\ SummaryPrinted =>
          /\ SummaryAsked
          /\ ThreeHave("ok") = 1..3
          /\ \E i \in 1..Len(result.printed) :
                /\ result.printed[i].text = ExpectedSummaryLine.text
                /\ result.printed[i].data = ExpectedSummaryLine.data
    /\ SummaryAsked /\ ThreeHave("failed") # {} =>
          /\ ~SummaryPrinted
          /\ Ended => result.exitCode = 1
    /\ SummaryAsked /\ ThreeHave("ok") # 1..3 => ~SummaryPrinted

\* The summary printed although the month was answered first and the budget
\* last.
C16_Witness ==
    /\ Program("main")
    /\ params.command = "summary"
    /\ SummaryPrinted
    /\ Len(requests) = 3
    /\ response[3].at = 1 /\ response[2].at = 2 /\ response[1].at = 3
    /\ Len(response[2].data) = 1

RequestFailed == pc \in {"rejected", "exited"} /\ Rejected(response)

ReportedFailure ==
    /\ Ended
    /\ result.exitCode # 0
    /\ \E i \in 1..Len(result.printed) : result.printed[i].stream = "stderr"

\* C15: a request is sent at most once in a run of a program; once a
\* request has failed the program sends no request any more, that one
\* included, and it eventually ends with a message printed on stderr and a
\* non-zero exit code.
C15_FailureEndsTheCommand ==
    /\ [](pc # "idle" =>
            \A i, j \in 1..Len(requests) :
                requests[i] = requests[j] => i = j)
    /\ [][RequestFailed => requests' = requests \/ pc' = "idle"]_vars
    /\ (RequestFailed ~> (RequestFailed /\ ReportedFailure))

\* The accounts request of the summary failed while the other two were
\* pending; main has printed the error and exited with code 1.
C15_Witness ==
    /\ Program("main")
    /\ params.command = "summary"
    /\ Len(requests) = 3
    /\ response[2].status = "failed"
    /\ response[1].status = "pending" /\ response[3].status = "pending"
    /\ ReportedFailure

----------------------------------------------------------------------------
(* Claims about the request of getTransactions and about main's switch.    *)

AssistantListed == pc = "done" /\ op = "ClaudeYNABAssistant.getTransactions"

Given(v) == v # Undefined

\* C21: a call of the assistant's getTransactions sends one request, whether
\* it is answered or fails: getTransactionsByAccount with the accountId when
\* an accountId is given, else getTransactionsByCategory with the categoryId
\* when a categoryId is given, else getTransactions; the since date goes
\* with it (null when there is none).  With both ids given the request is
\* the one by account, and nothing is taken out of its answer for the
\* category: every approved, not deleted record is returned as far as the
\* limit allows.
C21_OneRequestByAccountCategoryOrAll ==
    AssistantListed =>
        /\ Len(requests) = 1
        /\ requests[1].budgetId = params.budgetId
        /\ requests[1].since =
               IF Given(params.since) THEN params.since ELSE Null
        /\ Given(params.accountId) =>
               /\ requests[1].api = "transactions.getTransactionsByAccount"
               /\ requests[1].filterId = params.accountId
        /\ ~Given(params.accountId) /\ Given(params.categoryId) =>
               /\ requests[1].api = "transactions.getTransactionsByCategory"
               /\ requests[1].filterId = params.categoryId
        /\ ~Given(params.accountId) /\ ~Given(params.categoryId) =>
               /\ requests[1].api = "transactions.getTransactions"
               /\ requests[1].filterId = Null
        /\ result.status = "ok" =>
               /\ ShownIds \subseteq KeptByHandler
               /\ Cardinality(ShownIds) =
                      Min(LimitOrDefault(params.limit),
                          Cardinality(KeptByHandler))

\* Both ids and a since date given: the request by account was sent, and
\* the one record of its answer is returned.
C21_Witness ==
    /\ AssistantListed
    /\ Given(params.accountId) /\ Given(params.categoryId)
    /\ Given(params.since)
    /\ requests[1].api = "transactions.getTransactionsByAccount"
    /\ result.status = "ok"
    /\ Len(Shown) = 1

\* The subcommands that take a budget id, with the requests and the lines
\* that are their handler's.
WithBudgetId == {"accounts", "transactions", "categories", "summary"}

ApisOf(command) ==
    CASE command = "accounts" -> <<"accounts.getAccounts">>
      [] command = "transactions" -> <<"transactions.getTransactions">>
      [] command = "categories" -> <<"categories.getCategories">>
      [] command = "summary" ->
            <<"budgets.getBudgetById", "accounts.getAccounts",
              "months.getCurrentMonth">>

TextsOf(command) ==
    CASE command = "accounts" ->
            {"Fetching accounts for budget", "No accounts found.",
             "Found account(s)"}
      [] command = "transactions" ->
            {"Fetching recent transactions", "No transactions found.",
             "Showing most recent transactions"}
      [] command = "categories" -> {"Fetching categories", "Categories"}
      [] command = "summary" -> {"Fetching budget summary", "Budget summary"}

BudgetIdGiven == Truthy(params.budgetId)

\* C22: main, started with a token and one of the subcommands accounts,
\* transactions, categories and summary.  Without a budget id it prints the
\* error "Budget ID required" on stderr and exits with code 1, and no
\* request is sent.  With a budget id the handler of that subcommand runs
\* and no other: the requests sent are that handler's, for that budget, and
\* what is printed up to a successful end are that handler's lines.
C22_BudgetIdRequiredOrOwnHandler ==
    op = "main" /\ pc # "idle" /\ ~TokenAbsent
        /\ params.command \in WithBudgetId =>
        /\ ~BudgetIdGiven =>
              /\ Ended
              /\ result.exitCode = 1
              /\ requests = <<>>
              /\ Len(result.printed) = 1
              /\ result.printed[1].stream = "stderr"
              /\ result.printed[1].text = "Budget ID required. Usage"
        /\ BudgetIdGiven =>
              /\ Len(requests) = Len(ApisOf(params.command))
              /\ \A i \in 1..Len(requests) :
                    /\ requests[i].api = ApisOf(params.command)[i]
                    /\ requests[i].budgetId = params.budgetId
              /\ ~Prints("stderr", "Budget ID required. Usage")
              /\ Len(result.printed) >= 1
              /\ ~Rejected(response) =>
                    \A i \in 1..Len(result.printed) :
                        result.printed[i].text \in TextsOf(params.command)
              /\ Ended /\ ~Rejected(response) =>
                    /\ result.exitCode = 0
                    /\ Len(result.printed) = 2

\* categories without a budget id: the error, exit code 1, no request.
C22_Witness ==
    /\ Program("main")
    /\ params.token = "token"
    /\ params.command = "categories"
    /\ params.budgetId = Undefined
    /\ result.exitCode = 1
    /\ Prints("stderr", "Budget ID required. Usage")
    /\ requests = <<>>

====
